---- MODULE Spec2Model ----
(***************************************************************************)
(* INSIGHTORA core: the process-wide configuration with its one-time       *)
(* thread pool (python_bindings.rs) and the ingestion strategy engine      *)
(* (io/csv_parser.rs).                                                     *)
(*                                                                         *)
(* Four specifications share the module:                                   *)
(*   Spec         configure() run step by step by several threads under    *)
(*                the GLOBAL_CONFIG write lock, with the rayon global pool *)
(*                and get_config() readers;                                *)
(*   SpecIngest   ParallelCsvParser::parse and infer_schema,               *)
(*                StreamingCsvParser::parse_streaming and parse_batches,   *)
(*                one call at a time, against files and a collaborator     *)
(*                chosen at each call, while configure(memory_limit_mb)    *)
(*                moves the ceiling;                                       *)
(*   SpecQuery    should_use_streaming queries by parsers built with a     *)
(*                memory limit of the caller's choice;                     *)
(*   SpecOptions  parse and parse_streaming by such parsers while          *)
(*                configure() moves the ceiling and the chunk size.        *)
(* The collaborator (polars' CsvReader) is an input: a read succeeds or    *)
(* fails, and a successful read of parse_batches yields a row count.       *)
(***************************************************************************)
EXTENDS Integers, Sequences, FiniteSets

----------------------------------------------------------------------------
(* Bounds of the model *)

\* threads that call configure()
NumThreads == 2
\* num_cpus::get(): the machine's core count
NumCpus == 3
\* largest thread_count argument tried
MaxThreadCount == 2
\* largest chunk_size argument tried by configure()
MaxChunk == 1
\* largest memory_limit_mb argument tried by configure()
MaxLimit == 1
\* files of up to MaxHalfMb half-megabytes are tried, besides those around the
\* streaming threshold
MaxHalfMb == 2
\* largest row count of a parsed table
MaxRows == 4
\* largest StreamingCsvConfig.chunk_size tried
MaxChunkRows == 3

----------------------------------------------------------------------------
(* Option<T>: None is the empty set, Some(v) the singleton *)

None == {}

Some(v) == {v}

Unwrap(o) == CHOOSE v \in o : TRUE

OptionOf(S) == {None} \cup {Some(v) : v \in S}

----------------------------------------------------------------------------
(* RustConfig and its defaults *)

DefaultChunkSize == 100000

DefaultMemoryLimitMb == 4096

DefaultCacheSize == 1000

RustConfigDefault ==
  [thread_count    |-> NumCpus,
   chunk_size      |-> DefaultChunkSize,
   memory_limit_mb |-> DefaultMemoryLimitMb,
   enable_simd     |-> TRUE,
   cache_size      |-> DefaultCacheSize]

Threads == 1 .. NumThreads

\* the argument values of configure() that the model tries
ThreadCountArgs == OptionOf(0 .. MaxThreadCount)

ChunkSizeArgs == OptionOf(0 .. MaxChunk)

MemoryLimitArgs == OptionOf(0 .. MaxLimit)

EnableSimdArgs == OptionOf({FALSE})

CacheSizeArgs == OptionOf({0})

NoArgs ==
  [thread_count |-> None, chunk_size |-> None, memory_limit_mb |-> None,
   enable_simd |-> None, cache_size |-> None]

VARIABLES
  GLOBAL_CONFIG,            \* the RustConfig behind the RwLock
  THREAD_POOL_INITIALIZED,  \* the bool behind its RwLock
  configLock,               \* 0 = GLOBAL_CONFIG unlocked, t = write-locked by thread t
  poolLock,                 \* 0 = THREAD_POOL_INITIALIZED unlocked, t = write-locked by t
  globalPool,               \* rayon's global pool: 0 = not built, n = built with n threads
  pc,                       \* per thread: position inside configure()
  call,                     \* the arguments the configure() call holding the lock has
                            \* looked at so far (an argument is drawn where the code reads it)
  saved,                    \* GLOBAL_CONFIG as it was when the write lock was last free
  lastResult,               \* how the last finished configure() returned
  builds,                   \* successful build_global() calls made by configure (0, 1, 2 = more)
  savedFlag,                \* THREAD_POOL_INITIALIZED as it was when the write lock was last free
  snapshot                  \* what the last get_config() returned: [value, fresh], fresh
                            \* while no configure() call has started since

configVars ==
  <<GLOBAL_CONFIG, THREAD_POOL_INITIALIZED, configLock, poolLock, globalPool,
    pc, call, saved, lastResult, builds, savedFlag, snapshot>>

VARIABLES
  streaming,    \* the StreamingCsvParser: [config, progress_callback]
  parallel,     \* the ParallelCsvParser built by new(): None, or Some(its CsvParserConfig)
  op,           \* the ingestion call running: "idle", "parse", "parse_streaming",
                \* "parse_batches", "infer_schema"
  ipc,          \* its position
  self_config,  \* the CsvParserConfig of the ParallelCsvParser whose parse() is running
  file_size,    \* the byte length std::fs::metadata returned to the call
  reads,        \* the collaborator reads the call has started, in order
  events,       \* the (a, b) pairs the call has passed to the progress callback, in order
  batches,      \* the df.slice(offset, length) batches the call has passed to the
                \* consumer, in order, each with what the consumer returned (ok)
  total_rows,   \* df.height() in parse_batches
  start,        \* parse_batches' loop variable
  end_row,      \* parse_batches' `end` of the batch in hand
  finished,     \* the name of the last finished call
  outcome,      \* what it returned ("running" while a call runs)
  answer        \* what the last should_use_streaming() query returned, with the file
                \* length and the two limits in force at the query

ingestVars ==
  <<streaming, parallel, op, ipc, self_config, file_size, reads, events, batches,
    total_rows, start, end_row, finished, outcome, answer>>

vars == <<configVars, ingestVars>>

----------------------------------------------------------------------------
(* configure(), python_bindings.rs:57-115 *)

StoredThreadCount_Zero(tc) == tc

\* lines 69-73: thread_count 0 means the detected core count
StoredThreadCount(tc) == IF tc = 0 THEN NumCpus ELSE tc

MustBuildPool_Always(initialized) == TRUE

\* line 79: the pool is built only while the flag is false
MustBuildPool(initialized) == ~initialized

\* rayon::ThreadPoolBuilder::build_global succeeds only while no global pool exists
BuildGlobalOk == globalPool = 0

\* no get_config() result is held, or the one held predates a configure() call
NoSnapshot == [value |-> RustConfigDefault, fresh |-> FALSE]

\* every way out of configure drops the guards it holds; from then on readers
\* see the config the call leaves
Return(t, result, cfg) ==
  /\ GLOBAL_CONFIG' = cfg
  /\ pc' = [pc EXCEPT ![t] = "idle"]
  /\ configLock' = 0
  /\ poolLock' = 0
  /\ lastResult' = result
  /\ call' = NoArgs
  /\ saved' = cfg
  /\ savedFlag' = THREAD_POOL_INITIALIZED
  /\ UNCHANGED snapshot

\* line 64: GLOBAL_CONFIG.write()
ConfigureEnter(t) ==
  /\ pc[t] = "idle"
  /\ configLock = 0
  /\ configLock' = t
  /\ pc' = [pc EXCEPT ![t] = "thread_count"]
  /\ call' = NoArgs
  /\ lastResult' = "running"
  /\ snapshot' = NoSnapshot
  /\ UNCHANGED <<GLOBAL_CONFIG, THREAD_POOL_INITIALIZED, poolLock, globalPool, saved,
                 builds, savedFlag>>
  /\ UNCHANGED ingestVars

\* lines 68-77: store the thread count, then THREAD_POOL_INITIALIZED.write()
ConfigureThreadCount(t, tc) ==
  /\ pc[t] = "thread_count"
  /\ call' = [call EXCEPT !.thread_count = tc]
  /\ IF tc = None
       THEN /\ pc' = [pc EXCEPT ![t] = "chunk_size"]
            /\ UNCHANGED <<GLOBAL_CONFIG, poolLock>>
       ELSE /\ GLOBAL_CONFIG' =
                 [GLOBAL_CONFIG EXCEPT !.thread_count = StoredThreadCount(Unwrap(tc))]
            /\ poolLock = 0
            /\ poolLock' = t
            /\ pc' = [pc EXCEPT ![t] = "pool"]
  /\ UNCHANGED <<THREAD_POOL_INITIALIZED, configLock, globalPool, saved, savedFlag, snapshot, lastResult,
                 builds>>
  /\ UNCHANGED ingestVars

\* lines 79 and 85-90: read the flag; when it is set, only the config value was updated
ConfigurePool(t) ==
  /\ pc[t] = "pool"
  /\ IF MustBuildPool(THREAD_POOL_INITIALIZED)
       THEN /\ pc' = [pc EXCEPT ![t] = "build"]
            /\ UNCHANGED poolLock
       ELSE /\ pc' = [pc EXCEPT ![t] = "chunk_size"]
            /\ poolLock' = 0
  /\ UNCHANGED <<GLOBAL_CONFIG, THREAD_POOL_INITIALIZED, configLock, globalPool, call,
                 saved, savedFlag, snapshot, lastResult, builds>>
  /\ UNCHANGED ingestVars

\* lines 80-84: build_global() with config.thread_count threads, then set the flag;
\* a failed build returns the error through `?`
ConfigureBuild(t) ==
  /\ pc[t] = "build"
  /\ IF BuildGlobalOk
       THEN /\ globalPool' = GLOBAL_CONFIG.thread_count
            /\ THREAD_POOL_INITIALIZED' = TRUE
            /\ builds' = IF builds < 2 THEN builds + 1 ELSE 2
            /\ poolLock' = 0
            /\ pc' = [pc EXCEPT ![t] = "chunk_size"]
            /\ UNCHANGED <<GLOBAL_CONFIG, configLock, lastResult, call, saved, savedFlag,
                           snapshot>>
       ELSE /\ Return(t, "RuntimeError", GLOBAL_CONFIG)
            /\ UNCHANGED <<globalPool, THREAD_POOL_INITIALIZED, builds>>
  /\ UNCHANGED ingestVars

\* lines 92-97
ConfigureChunkSize(t, cs) ==
  /\ pc[t] = "chunk_size"
  /\ IF cs = None
       THEN /\ pc' = [pc EXCEPT ![t] = "memory_limit_mb"]
            /\ call' = [call EXCEPT !.chunk_size = cs]
            /\ UNCHANGED <<GLOBAL_CONFIG, configLock, poolLock, lastResult, saved, savedFlag,
                           snapshot>>
       ELSE IF Unwrap(cs) = 0
              THEN Return(t, "ValueError", GLOBAL_CONFIG)
              ELSE /\ GLOBAL_CONFIG' = [GLOBAL_CONFIG EXCEPT !.chunk_size = Unwrap(cs)]
                   /\ pc' = [pc EXCEPT ![t] = "memory_limit_mb"]
                   /\ call' = [call EXCEPT !.chunk_size = cs]
                   /\ UNCHANGED <<configLock, poolLock, lastResult, saved, savedFlag,
                                  snapshot>>
  /\ UNCHANGED <<THREAD_POOL_INITIALIZED, globalPool, builds>>
  /\ UNCHANGED ingestVars

\* lines 99-104
ConfigureMemoryLimit(t, ml) ==
  /\ pc[t] = "memory_limit_mb"
  /\ IF ml = None
       THEN /\ pc' = [pc EXCEPT ![t] = "rest"]
            /\ call' = [call EXCEPT !.memory_limit_mb = ml]
            /\ UNCHANGED <<GLOBAL_CONFIG, configLock, poolLock, lastResult, saved, savedFlag,
                           snapshot>>
       ELSE IF Unwrap(ml) = 0
              THEN Return(t, "ValueError", GLOBAL_CONFIG)
              ELSE /\ GLOBAL_CONFIG' = [GLOBAL_CONFIG EXCEPT !.memory_limit_mb = Unwrap(ml)]
                   /\ pc' = [pc EXCEPT ![t] = "rest"]
                   /\ call' = [call EXCEPT !.memory_limit_mb = ml]
                   /\ UNCHANGED <<configLock, poolLock, lastResult, saved, savedFlag,
                                  snapshot>>
  /\ UNCHANGED <<THREAD_POOL_INITIALIZED, globalPool, builds>>
  /\ UNCHANGED ingestVars

\* lines 106-114: enable_simd, cache_size, Ok(())
ConfigureFinish(t, simd, cache) ==
  /\ pc[t] = "rest"
  /\ Return(t, "Ok",
       [GLOBAL_CONFIG EXCEPT
          !.enable_simd = IF simd = None THEN @ ELSE Unwrap(simd),
          !.cache_size  = IF cache = None THEN @ ELSE Unwrap(cache)])
  /\ UNCHANGED <<THREAD_POOL_INITIALIZED, globalPool, builds>>
  /\ UNCHANGED ingestVars

CanRead_Always == TRUE

\* GLOBAL_CONFIG.read() (lines 129, 146) is granted only while no writer holds the lock
CanRead == configLock = 0

\* lines 133-139: the dict get_config() fills, field by field
ConfigDict(cfg) ==
  [thread_count    |-> cfg.thread_count,
   chunk_size      |-> cfg.chunk_size,
   memory_limit_mb |-> cfg.memory_limit_mb,
   enable_simd     |-> cfg.enable_simd,
   cache_size      |-> cfg.cache_size]

GetConfig_Take(t) ==
  /\ pc[t] = "idle"
  /\ CanRead
  /\ snapshot' = [value |-> ConfigDict(GLOBAL_CONFIG), fresh |-> TRUE]
  /\ GLOBAL_CONFIG' = RustConfigDefault
  /\ UNCHANGED <<THREAD_POOL_INITIALIZED, configLock, poolLock, globalPool, pc, call,
                 saved, lastResult, builds, savedFlag>>
  /\ UNCHANGED ingestVars

\* get_config, lines 128-142: the fields are copied under the read guard, which is
\* dropped on return
GetConfig(t) ==
  /\ pc[t] = "idle"
  /\ CanRead
  /\ snapshot' = [value |-> ConfigDict(GLOBAL_CONFIG), fresh |-> TRUE]
  /\ UNCHANGED <<GLOBAL_CONFIG, THREAD_POOL_INITIALIZED, configLock, poolLock, globalPool,
                 pc, call, saved, lastResult, builds, savedFlag>>
  /\ UNCHANGED ingestVars

\* ParallelCsvParser::count_lines runs lines.par_iter() (csv_parser.rs:140): the first
\* use of rayon builds its global pool with the default size when none exists
CountLines ==
  /\ globalPool' = IF globalPool = 0 THEN NumCpus ELSE globalPool
  /\ UNCHANGED <<GLOBAL_CONFIG, THREAD_POOL_INITIALIZED, configLock, poolLock, pc, call,
                 saved, savedFlag, snapshot, lastResult, builds>>
  /\ UNCHANGED ingestVars

----------------------------------------------------------------------------
(* Files, options and results of the ingestion calls *)

MB == 1024 * 1024

HalfMB == MB \div 2

\* csv_parser.rs:318
STREAMING_THRESHOLD_MB == 100

\* what the file system answers a call: whether the path exists, whether
\* std::fs::metadata succeeds, and the byte length it reports
FileSizes ==
  {0}
    \cup {k * HalfMB - 1 : k \in 1 .. MaxHalfMb}
    \cup {k * HalfMB : k \in 1 .. MaxHalfMb}
    \cup {STREAMING_THRESHOLD_MB * MB - 1, STREAMING_THRESHOLD_MB * MB}

Files ==
  {[exists |-> FALSE, metadata_ok |-> FALSE, len |-> 0],
   [exists |-> TRUE, metadata_ok |-> FALSE, len |-> 0]}
    \cup [exists : {TRUE}, metadata_ok : {TRUE}, len : FileSizes]

\* positive memory ceilings that configure(memory_limit_mb = ..) is called with
CeilingArgs == (1 .. MaxLimit) \cup {2 * STREAMING_THRESHOLD_MB - 1}

DefaultStreamingLimitMb == 1024

DefaultInferSchemaLength == 1000

\* impl Default for CsvParserConfig, csv_parser.rs:21-31
CsvParserConfigDefault ==
  [chunk_size |-> DefaultChunkSize, has_header |-> TRUE, delimiter |-> ",",
   quote_char |-> "\"", infer_schema_length |-> Some(DefaultInferSchemaLength)]

\* the StreamingCsvConfig values a caller builds (all fields are public)
StreamingConfigs ==
  [chunk_size      : 0 .. MaxChunkRows,
   memory_limit_mb : {DefaultStreamingLimitMb},
   has_header      : BOOLEAN,
   delimiter       : {",", ";"}]

Result(kind) == [kind |-> kind, requested |-> 0, limit |-> 0]

ParallelRead_Live(c) ==
  [low_memory |-> FALSE, chunk_size |-> GLOBAL_CONFIG.chunk_size,
   has_header |-> c.has_header, delimiter |-> c.delimiter,
   quote_char |-> Some(c.quote_char), infer_schema |-> Some(c.infer_schema_length)]

\* the builder calls of a CsvReader: an option the code does not set is None
ParallelRead(c) ==
  [low_memory |-> FALSE, chunk_size |-> c.chunk_size, has_header |-> c.has_header,
   delimiter |-> c.delimiter, quote_char |-> Some(c.quote_char),
   infer_schema |-> Some(c.infer_schema_length)]

LowMemoryRead(c) ==
  [low_memory |-> TRUE, chunk_size |-> c.chunk_size, has_header |-> c.has_header,
   delimiter |-> c.delimiter, quote_char |-> None, infer_schema |-> None]

\* csv_parser.rs:157-162: the read of infer_schema sets neither a chunk size nor a
\* quote character
SchemaRead(c) ==
  [low_memory |-> FALSE, chunk_size |-> None, has_header |-> c.has_header,
   delimiter |-> c.delimiter, quote_char |-> None,
   infer_schema |-> Some(c.infer_schema_length)]

----------------------------------------------------------------------------
(* MemoryEstimator and the pre-flight of ParallelCsvParser::parse *)

\* csv_parser.rs:81 and :407.  len * 2 stays within u64: a file length is below 2^63
EstimateMb(len) == (len * 2) \div MB

ExceedsLimit_AtLeast(estimated_mb, limit_mb) == estimated_mb >= limit_mb

\* python_bindings.rs:220
ExceedsLimit(estimated_mb, limit_mb) == estimated_mb > limit_mb

CheckMemoryLimit_Streaming(estimated_mb, config) ==
  IF ExceedsLimit(estimated_mb, streaming.config.memory_limit_mb)
    THEN [kind |-> "MemoryLimitExceeded", requested |-> estimated_mb,
          limit |-> streaming.config.memory_limit_mb]
    ELSE Result("Ok")

\* check_memory_limit, python_bindings.rs:218-227, against the config it clones
CheckMemoryLimit(estimated_mb, config) ==
  IF ExceedsLimit(estimated_mb, config.memory_limit_mb)
    THEN [kind |-> "MemoryLimitExceeded", requested |-> estimated_mb,
          limit |-> config.memory_limit_mb]
    ELSE Result("Ok")

\* csv_parser.rs:66-82: the checks of parse() before the read, in order
Preflight(f, config) ==
  IF ~f.exists THEN Result("NotFound")
  ELSE IF ~f.metadata_ok THEN Result("IoError")
  ELSE CheckMemoryLimit(EstimateMb(f.len), config)

UseParallel_Inclusive(len) == len \div MB <= STREAMING_THRESHOLD_MB

\* csv_parser.rs:317-318
UseParallel(len) == len \div MB < STREAMING_THRESHOLD_MB

\* csv_parser.rs:320-326: the CsvParserConfig parse_streaming hands to the parallel parser
TranslateOptions(c) ==
  [chunk_size |-> c.chunk_size, has_header |-> c.has_header, delimiter |-> c.delimiter,
   quote_char |-> "\"", infer_schema_length |-> Some(DefaultInferSchemaLength)]

----------------------------------------------------------------------------
(* The ingestion calls.  One call runs at a time; a call starts with an empty   *)
(* record of its reads, events and batches.                                      *)

\* a call begins; len is the byte length the file system reports to it, rows the
\* height of the table parse_batches reads
Begin(len, rows) ==
  /\ op = "idle"
  /\ file_size' = len
  /\ events' = <<>>
  /\ batches' = <<>>
  /\ total_rows' = rows
  /\ start' = 0
  /\ end_row' = 0

KnownLen(f) == IF f.exists /\ f.metadata_ok THEN f.len ELSE 0

Finish(result) ==
  /\ op' = "idle"
  /\ ipc' = "none"
  /\ outcome' = result

Running(name, at) ==
  /\ op' = name
  /\ ipc' = at
  /\ outcome' = Result("running")

\* ParallelCsvParser::new(), csv_parser.rs:40-48
ParserNew ==
  /\ op = "idle"
  /\ parallel' = Some([CsvParserConfigDefault EXCEPT
                         !.chunk_size = GLOBAL_CONFIG.chunk_size])
  /\ UNCHANGED <<configVars, answer, streaming, op, ipc, self_config, file_size, reads, events,
                 batches, total_rows, start, end_row, finished, outcome>>

\* ParallelCsvParser::parse, csv_parser.rs:65-82: the pre-flight
Parse(f) ==
  /\ parallel # None
  /\ Begin(KnownLen(f), 0)
  /\ finished' = "parse"
  /\ reads' = <<>>
  /\ self_config' = Unwrap(parallel)
  /\ IF Preflight(f, GLOBAL_CONFIG).kind = "Ok"
       THEN Running("parse", "read")
       ELSE Finish(Preflight(f, GLOBAL_CONFIG))
  /\ UNCHANGED <<configVars, answer, streaming, parallel>>

\* csv_parser.rs:84-93: the collaborator read of parse(), which may fail
ParseRead(ok) ==
  /\ op \in {"parse", "parse_streaming"}
  /\ ipc = "read"
  /\ reads' = Append(reads, ParallelRead(self_config))
  /\ Finish(IF ok THEN Result("Ok") ELSE Result("PolarsError"))
  /\ UNCHANGED <<configVars, answer, streaming, parallel, self_config, file_size, events,
                 batches, total_rows, start, end_row, finished>>

\* ParallelCsvParser::infer_schema, csv_parser.rs:146-155: the existence check, the
\* only check made before the read; the call does not ask for the file's length
InferSchema(f) ==
  /\ parallel # None
  /\ Begin(0, 0)
  /\ finished' = "infer_schema"
  /\ reads' = <<>>
  /\ self_config' = Unwrap(parallel)
  /\ IF ~f.exists
       THEN Finish(Result("NotFound"))
       ELSE Running("infer_schema", "read")
  /\ UNCHANGED <<configVars, answer, streaming, parallel>>

\* csv_parser.rs:157-165: the collaborator read of infer_schema, which may fail
InferSchemaRead(ok) ==
  /\ op = "infer_schema"
  /\ ipc = "read"
  /\ reads' = Append(reads, SchemaRead(self_config))
  /\ Finish(IF ok THEN Result("Ok") ELSE Result("PolarsError"))
  /\ UNCHANGED <<configVars, answer, streaming, parallel, self_config, file_size, events,
                 batches, total_rows, start, end_row, finished>>

\* impl From<InsightoraError> for PyErr, python_bindings.rs:180-215; a missing path
\* is an IoError of kind NotFound
PyErrOf(kind) ==
  CASE kind = "MemoryLimitExceeded" -> "PyMemoryError"
    [] kind = "InvalidDataType" -> "PyTypeError"
    [] kind \in {"ValidationError", "ConfigError", "ParseError"} -> "PyValueError"
    [] kind \in {"ThreadPoolError", "IoError", "NotFound", "PolarsError"} -> "PyRuntimeError"

\* what parse_csv, parse_csv_with_options, infer_csv_schema and parse_csv_streaming
\* do with the error of the engine call: .map_err(|e| PyRuntimeError::new_err(..)),
\* python_bindings.rs:261-262, 383-384, 435-436, 502-503
MapErr(kind) == "PyRuntimeError"

\* the engine calls behind those host functions
HostCalls == {"parse", "parse_streaming", "infer_schema"}

\* the exception the host function raises once its engine call has returned
Raised ==
  IF op = "idle" /\ finished \in HostCalls /\ outcome.kind \notin {"none", "running", "Ok"}
    THEN MapErr(outcome.kind)
    ELSE "none"

\* StreamingCsvParser::parse_streaming, csv_parser.rs:300-328: the checks and the
\* choice of path; below the threshold the call is parser.parse(file_path)
ParseStreaming(f) ==
  /\ Begin(KnownLen(f), 0)
  /\ finished' = "parse_streaming"
  /\ reads' = <<>>
  /\ IF ~f.exists THEN
       /\ Finish(Result("NotFound"))
       /\ UNCHANGED self_config
     ELSE IF ~f.metadata_ok THEN
       /\ Finish(Result("IoError"))
       /\ UNCHANGED self_config
     ELSE IF UseParallel(f.len) THEN
       /\ self_config' = TranslateOptions(streaming.config)
       /\ IF Preflight(f, GLOBAL_CONFIG).kind = "Ok"
            THEN Running("parse_streaming", "read")
            ELSE Finish(Preflight(f, GLOBAL_CONFIG))
     ELSE
       /\ Running("parse_streaming", "low_memory_read")
       /\ UNCHANGED self_config
  /\ UNCHANGED <<configVars, answer, streaming, parallel>>

\* csv_parser.rs:330-336: the low-memory collaborator read, which may fail
StreamingRead(ok) ==
  /\ op = "parse_streaming"
  /\ ipc = "low_memory_read"
  /\ reads' = Append(reads, LowMemoryRead(streaming.config))
  /\ IF ok
       THEN /\ ipc' = "report"
            /\ UNCHANGED <<op, outcome>>
       ELSE Finish(Result("PolarsError"))
  /\ UNCHANGED <<configVars, answer, streaming, parallel, self_config, file_size, events,
                 batches, total_rows, start, end_row, finished>>

CompletionEvent_FromZero(len) == <<0, len>>

\* csv_parser.rs:340
CompletionEvent(len) == <<len, len>>

\* csv_parser.rs:338-343: the completion event, then Ok(df)
StreamingReport ==
  /\ op = "parse_streaming"
  /\ ipc = "report"
  /\ events' = IF streaming.progress_callback
                 THEN Append(events, CompletionEvent(file_size))
                 ELSE events
  /\ Finish(Result("Ok"))
  /\ UNCHANGED <<configVars, answer, streaming, parallel, self_config, file_size, reads,
                 batches, total_rows, start, end_row, finished>>

Min(a, b) == IF a < b THEN a ELSE b

\* parse_batches may call its consumer this many times in the model; only a loop
\* that makes no progress gets that far
MaxCalls == MaxRows + 2

BatchEnd_NoClamp(from, chunk_size, total) == from + chunk_size

\* csv_parser.rs:384.  start + chunk_size stays within usize: start > 0 means
\* chunk_size < total_rows, and a table has far fewer than 2^63 rows
BatchEnd(from, chunk_size, total) == Min(from + chunk_size, total)

Try_Ignore(ok) == TRUE

\* csv_parser.rs:387: `?` goes on only when the consumer returned Ok
Try(ok) == ok

\* StreamingCsvParser::parse_batches, csv_parser.rs:354-381: the existence check and
\* the one full read, which yields a table of `rows` rows or fails
ParseBatches(exists, ok, rows) ==
  /\ Begin(0, IF exists /\ ok THEN rows ELSE 0)
  /\ finished' = "parse_batches"
  /\ IF ~exists THEN
       /\ reads' = <<>>
       /\ Finish(Result("NotFound"))
     ELSE IF ~ok THEN
       /\ reads' = <<LowMemoryRead(streaming.config)>>
       /\ Finish(Result("PolarsError"))
     ELSE
       /\ reads' = <<LowMemoryRead(streaming.config)>>
       /\ Running("parse_batches", "loop")
  /\ UNCHANGED <<configVars, answer, streaming, parallel, self_config>>

\* csv_parser.rs:383-387: the loop test, the slice and the consumer call, whose
\* result is `ok`
BatchConsume(ok) ==
  /\ op = "parse_batches"
  /\ ipc = "loop"
  /\ start < total_rows
  /\ Len(batches) < MaxCalls
  /\ end_row' = BatchEnd(start, streaming.config.chunk_size, total_rows)
  /\ batches' = Append(batches,
                   [offset |-> start,
                    length |-> BatchEnd(start, streaming.config.chunk_size, total_rows) - start,
                    ok |-> ok])
  /\ IF Try(ok)
       THEN /\ ipc' = "progress"
            /\ UNCHANGED <<op, outcome>>
       ELSE Finish(Result("ConsumerError"))
  /\ UNCHANGED <<configVars, answer, streaming, parallel, self_config, file_size, reads, events,
                 total_rows, start, finished>>

\* csv_parser.rs:389-394: the progress event, then start = end
BatchProgress ==
  /\ op = "parse_batches"
  /\ ipc = "progress"
  /\ events' = IF streaming.progress_callback
                 THEN Append(events, <<end_row, total_rows>>)
                 ELSE events
  /\ start' = end_row
  /\ ipc' = "loop"
  /\ UNCHANGED <<configVars, answer, streaming, parallel, op, self_config, file_size, reads,
                 batches, total_rows, end_row, finished, outcome>>

\* csv_parser.rs:383, 397: the loop ends, Ok(())
BatchesDone ==
  /\ op = "parse_batches"
  /\ ipc = "loop"
  /\ ~(start < total_rows)
  /\ Finish(Result("Ok"))
  /\ UNCHANGED <<configVars, answer, streaming, parallel, self_config, file_size, reads, events,
                 batches, total_rows, start, end_row, finished>>

\* configure(memory_limit_mb = ml) with ml > 0 and every other argument absent, run
\* to its end under the write lock (python_bindings.rs:64, 99-104, 114)
ConfigureLimit(ml) ==
  /\ configLock = 0
  /\ ml # 0
  /\ GLOBAL_CONFIG' = [GLOBAL_CONFIG EXCEPT !.memory_limit_mb = ml]
  /\ saved' = GLOBAL_CONFIG'
  /\ lastResult' = "Ok"
  /\ snapshot' = NoSnapshot
  /\ UNCHANGED <<THREAD_POOL_INITIALIZED, configLock, poolLock, globalPool, pc, call,
                 builds, savedFlag, ingestVars>>

ConfigInit ==
  /\ GLOBAL_CONFIG = RustConfigDefault
  /\ THREAD_POOL_INITIALIZED = FALSE
  /\ configLock = 0
  /\ poolLock = 0
  /\ globalPool = 0
  /\ pc = [t \in Threads |-> "idle"]
  /\ call = NoArgs
  /\ saved = RustConfigDefault
  /\ lastResult = "none"
  /\ builds = 0
  /\ savedFlag = FALSE
  /\ snapshot = NoSnapshot

\* no should_use_streaming() query has been answered
NoAnswer == [ok |-> FALSE, len |-> 0, limit |-> 0, ceiling |-> 0, recommended |-> FALSE]

\* no ingestion call has run
IngestIdle ==
  /\ parallel = None
  /\ op = "idle"
  /\ ipc = "none"
  /\ self_config = CsvParserConfigDefault
  /\ file_size = 0
  /\ reads = <<>>
  /\ events = <<>>
  /\ batches = <<>>
  /\ total_rows = 0
  /\ start = 0
  /\ end_row = 0
  /\ finished = "none"
  /\ outcome = Result("none")
  /\ answer = NoAnswer

\* StreamingCsvParser::new(), csv_parser.rs:269-274
StreamingNew ==
  [config |-> [chunk_size |-> DefaultChunkSize, memory_limit_mb |-> DefaultStreamingLimitMb,
               has_header |-> TRUE, delimiter |-> ","],
   progress_callback |-> FALSE]

Init ==
  /\ ConfigInit
  /\ IngestIdle
  /\ streaming = StreamingNew

Next ==
  \/ \E t \in Threads : ConfigureEnter(t)
  \/ \E t \in Threads : \E tc \in ThreadCountArgs : ConfigureThreadCount(t, tc)
  \/ \E t \in Threads : ConfigurePool(t)
  \/ \E t \in Threads : ConfigureBuild(t)
  \/ \E t \in Threads : \E cs \in ChunkSizeArgs : ConfigureChunkSize(t, cs)
  \/ \E t \in Threads : \E ml \in MemoryLimitArgs : ConfigureMemoryLimit(t, ml)
  \/ \E t \in Threads : \E simd \in EnableSimdArgs : \E cache \in CacheSizeArgs :
        ConfigureFinish(t, simd, cache)
  \/ \E t \in Threads : GetConfig(t)
  \/ CountLines

Spec == Init /\ [][Next]_vars

\* StreamingCsvParser::with_config(..), optionally .with_progress_callback(..),
\* csv_parser.rs:277-288
IngestInit ==
  /\ ConfigInit
  /\ IngestIdle
  /\ streaming \in [config : StreamingConfigs, progress_callback : BOOLEAN]

IngestNext ==
  \/ ParserNew
  \/ \E f \in Files : Parse(f)
  \/ \E ok \in BOOLEAN : ParseRead(ok)
  \/ \E f \in Files : InferSchema(f)
  \/ \E ok \in BOOLEAN : InferSchemaRead(ok)
  \/ \E f \in Files : ParseStreaming(f)
  \/ \E ok \in BOOLEAN : StreamingRead(ok)
  \/ StreamingReport
  \/ \E exists \in BOOLEAN : \E ok \in BOOLEAN : \E rows \in 0 .. MaxRows :
        ParseBatches(exists, ok, rows)
  \/ \E ok \in BOOLEAN : BatchConsume(ok)
  \/ BatchProgress
  \/ BatchesDone
  \/ \E ml \in CeilingArgs : ConfigureLimit(ml)

SpecIngest == IngestInit /\ [][IngestNext]_vars

----------------------------------------------------------------------------
(* The two memory limits and the frozen options: should_use_streaming queries  *)
(* (SpecQuery) and parse / parse_streaming calls (SpecOptions) by parsers       *)
(* built with a limit of the caller's choice, while configure() moves the       *)
(* process-wide ceiling and chunk size.                                         *)

\* the StreamingCsvConfig.memory_limit_mb values that callers pass
StreamLimits ==
  (0 .. MaxLimit) \cup {2 * STREAMING_THRESHOLD_MB - 1, DefaultStreamingLimitMb}

\* positive chunk sizes that configure(chunk_size = ..) is called with
ChunkArgs == 1 .. MaxChunk

\* StreamingCsvParser::with_config(StreamingCsvConfig { memory_limit_mb,
\* ..Default::default() }), python_bindings.rs:557-562
WithMemoryLimit(ml) ==
  /\ op = "idle"
  /\ streaming' = [config |-> [StreamingNew.config EXCEPT !.memory_limit_mb = ml],
                   progress_callback |-> FALSE]
  /\ UNCHANGED <<configVars, answer, parallel, op, ipc, self_config, file_size, reads,
                 events, batches, total_rows, start, end_row, finished, outcome>>

ShouldStream_AtLeast(estimated_memory, limit_mb) == estimated_memory >= limit_mb

\* csv_parser.rs:415
ShouldStream(estimated_memory, limit_mb) == estimated_memory > limit_mb

\* StreamingCsvParser::should_use_streaming over estimate_memory_usage,
\* csv_parser.rs:401-416: std::fs::metadata fails for a missing or unreadable path
ShouldUseStreaming(f) ==
  /\ op = "idle"
  /\ answer' =
       IF f.exists /\ f.metadata_ok
         THEN [ok |-> TRUE, len |-> f.len,
               limit |-> streaming.config.memory_limit_mb,
               ceiling |-> GLOBAL_CONFIG.memory_limit_mb,
               recommended |-> ShouldStream(EstimateMb(f.len),
                                            streaming.config.memory_limit_mb)]
         ELSE NoAnswer
  /\ UNCHANGED <<configVars, streaming, parallel, op, ipc, self_config, file_size, reads,
                 events, batches, total_rows, start, end_row, finished, outcome>>

\* configure(chunk_size = cs) with cs > 0 and every other argument absent, run to
\* its end under the write lock (python_bindings.rs:64, 92-97, 114)
ConfigureChunk(cs) ==
  /\ configLock = 0
  /\ cs # 0
  /\ GLOBAL_CONFIG' = [GLOBAL_CONFIG EXCEPT !.chunk_size = cs]
  /\ saved' = GLOBAL_CONFIG'
  /\ lastResult' = "Ok"
  /\ snapshot' = NoSnapshot
  /\ UNCHANGED <<THREAD_POOL_INITIALIZED, configLock, poolLock, globalPool, pc, call,
                 builds, savedFlag, ingestVars>>

QueryNext ==
  \/ \E ml \in StreamLimits : WithMemoryLimit(ml)
  \/ \E ml \in CeilingArgs : ConfigureLimit(ml)
  \/ \E f \in Files : ShouldUseStreaming(f)

SpecQuery == Init /\ [][QueryNext]_vars

OptionsNext ==
  \/ \E ml \in StreamLimits : WithMemoryLimit(ml)
  \/ ParserNew
  \/ \E cs \in ChunkArgs : ConfigureChunk(cs)
  \/ \E ml \in CeilingArgs : ConfigureLimit(ml)
  \/ \E f \in Files : Parse(f)
  \/ \E ok \in BOOLEAN : ParseRead(ok)
  \/ \E f \in Files : ParseStreaming(f)
  \/ \E ok \in BOOLEAN : StreamingRead(ok)
  \/ StreamingReport

SpecOptions == Init /\ [][OptionsNext]_vars

----------------------------------------------------------------------------
(* Claims about configure() and the pool, checked under Spec *)

\* the step in which thread t's configure() call returns
Returns(t) == pc[t] # "idle" /\ pc'[t] = "idle"

\* C1: a configure() call that fails validation (chunk_size = 0 or memory_limit_mb = 0)
\* returns with every field of the config equal to its value before the call.
C1_AllOrNothing ==
  [][\A t \in Threads :
       (Returns(t) /\ lastResult' = "ValueError") => GLOBAL_CONFIG' = saved]_vars

\* C2: configure() builds the pool successfully at most once, and no call reaches
\* build_global() once THREAD_POOL_INITIALIZED is true, whatever the interleaving.
C2_PoolBuiltOnce ==
  /\ builds <= 1
  /\ \A t \in Threads : pc[t] = "build" => ~THREAD_POOL_INITIALIZED

\* a call that supplied a thread count has passed the pool step without building,
\* the pool having been built by an earlier call
C2_Witness ==
  \E t \in Threads :
    /\ pc[t] = "chunk_size"
    /\ call.thread_count # None
    /\ THREAD_POOL_INITIALIZED
    /\ builds = 1
    /\ saved.thread_count = globalPool
    /\ GLOBAL_CONFIG.thread_count # globalPool

\* C3: a successful configure(thread_count = M) stores M (the core count when M = 0)
\* and a pool, once built, keeps its size: stored count and pool size may differ.
C3_StoredNotResized ==
  [][/\ globalPool # 0 => globalPool' = globalPool
     /\ \A t \in Threads :
          (Returns(t) /\ lastResult' = "Ok" /\ call.thread_count # None) =>
            GLOBAL_CONFIG'.thread_count =
              (IF Unwrap(call.thread_count) = 0 THEN NumCpus
                                               ELSE Unwrap(call.thread_count))]_vars

\* the pool was built with N threads and a later call that supplied another thread
\* count is about to return Ok
C3_Witness ==
  \E t \in Threads :
    /\ pc[t] = "rest"
    /\ THREAD_POOL_INITIALIZED
    /\ call.thread_count # None
    /\ saved.thread_count = globalPool
    /\ GLOBAL_CONFIG.thread_count # globalPool

----------------------------------------------------------------------------
(* Claims about parse_batches, checked under SpecIngest *)

ChunkRows == streaming.config.chunk_size

InBatches == op = "parse_batches" \/ (op = "idle" /\ finished = "parse_batches")

BatchesOk == op = "idle" /\ finished = "parse_batches" /\ outcome.kind = "Ok"

CeilDiv(r, c) == (r + c - 1) \div c

RECURSIVE SumLengths(_)
SumLengths(bs) == IF bs = <<>> THEN 0 ELSE bs[1].length + SumLengths(Tail(bs))

OkBatches == {i \in 1 .. Len(batches) : batches[i].ok}

\* C4: with chunk_size C >= 1, a parse_batches call over R rows whose consumer never
\* fails calls the consumer ceil(R/C) times; every batch but the last has C rows, the
\* last has R mod C rows (C when that is 0), the sizes sum to R, and R = 0 gives no
\* call and Ok.
C4_BatchCountAndSizes ==
  (BatchesOk /\ ChunkRows >= 1) =>
    /\ Len(batches) = CeilDiv(total_rows, ChunkRows)
    /\ \A i \in 1 .. Len(batches) - 1 : batches[i].length = ChunkRows
    /\ Len(batches) > 0 =>
         batches[Len(batches)].length =
           (IF total_rows % ChunkRows = 0 THEN ChunkRows ELSE total_rows % ChunkRows)
    /\ SumLengths(batches) = total_rows
    /\ total_rows = 0 => batches = <<>>

\* a finished run with full batches and a shorter last one
C4_Witness ==
  /\ BatchesOk
  /\ ChunkRows >= 2
  /\ Len(batches) >= 2
  /\ batches[Len(batches)].length < ChunkRows

\* an empty table: no consumer call, Ok
C4_WitnessEmpty ==
  /\ BatchesOk
  /\ ChunkRows >= 1
  /\ total_rows = 0
  /\ reads # <<>>

\* C5: the windows handed to the consumer start at row 0, each next one starts where
\* the previous one ended, their offsets strictly increase, and when the consumer
\* never fails they cover [0, total_rows).
C5_WindowsInOrder ==
  InBatches =>
    /\ Len(batches) > 0 => batches[1].offset = 0
    /\ \A i \in 1 .. Len(batches) - 1 :
         /\ batches[i + 1].offset = batches[i].offset + batches[i].length
         /\ batches[i + 1].offset > batches[i].offset
    /\ BatchesOk =>
         (IF Len(batches) = 0 THEN total_rows = 0
          ELSE batches[Len(batches)].offset + batches[Len(batches)].length = total_rows)

\* what C5 states holds of every parser whose chunk_size is positive
C5_ForPositiveChunk == ChunkRows >= 1 => C5_WindowsInOrder

\* C6: when the consumer fails on a batch, that batch is the last one it is given,
\* the call has returned that error, and the failed batch has no progress event; no
\* row is handed to the consumer twice.
C6_FailFast ==
  InBatches =>
    /\ \A i \in 1 .. Len(batches) :
         ~batches[i].ok =>
           /\ i = Len(batches)
           /\ op = "idle"
           /\ outcome.kind = "ConsumerError"
           /\ Len(events) = (IF streaming.progress_callback THEN i - 1 ELSE 0)
    /\ \A i, j \in 1 .. Len(batches) :
         i < j => batches[j].offset >= batches[i].offset + batches[i].length

\* the consumer failed on a batch after the first, with an observer registered
C6_Witness ==
  /\ InBatches
  /\ streaming.progress_callback
  /\ Len(batches) >= 2
  /\ ~batches[Len(batches)].ok
  /\ Len(events) = Len(batches) - 1

\* C7: with an observer, one event follows each successfully consumed batch and none
\* precedes the consumer's return; the i-th event is (min(i*C, R), R); rowsProcessed
\* strictly increases; a fully successful run ends with (R, R); R = 0 gives no event.
C7_ProgressEvents ==
  (InBatches /\ streaming.progress_callback) =>
    /\ Len(events) =
         Cardinality(OkBatches) - (IF ipc = "progress" THEN 1 ELSE 0)
    /\ \A i \in 1 .. Len(events) :
         events[i] = <<Min(i * ChunkRows, total_rows), total_rows>>
    /\ \A i \in 1 .. Len(events) - 1 : events[i][1] < events[i + 1][1]
    /\ (BatchesOk /\ total_rows > 0) =>
         (Len(events) > 0 /\ events[Len(events)] = <<total_rows, total_rows>>)
    /\ total_rows = 0 => events = <<>>

\* what C7 states holds of every parser whose chunk_size is positive
C7_ForPositiveChunk == ChunkRows >= 1 => C7_ProgressEvents

----------------------------------------------------------------------------
(* Claims about parse and parse_streaming, checked under SpecIngest *)

\* C8: parse checks in order: a missing path gives NotFound; else, with the size
\* known, an estimate floor(size*2 / 2^20) above the memory_limit_mb stored when
\* parse is called gives MemoryLimitExceeded{requested = estimate, limit = ceiling}
\* with no read started; an estimate equal to the ceiling goes on to the read.
C8_PreflightOrder ==
  [][\A f \in Files :
       Parse(f) =>
         IF ~f.exists
           THEN op' = "idle" /\ outcome'.kind = "NotFound" /\ reads' = <<>>
           ELSE f.metadata_ok =>
                  IF (f.len * 2) \div 1048576 > GLOBAL_CONFIG.memory_limit_mb
                    THEN /\ op' = "idle"
                         /\ reads' = <<>>
                         /\ outcome' = [kind |-> "MemoryLimitExceeded",
                                         requested |-> (f.len * 2) \div 1048576,
                                         limit |-> GLOBAL_CONFIG.memory_limit_mb]
                    ELSE op' = "parse" /\ ipc' = "read" /\ reads' = <<>>]_vars

\* parse has refused a file whose estimate is just above a configured ceiling
C8_Witness ==
  /\ op = "idle"
  /\ finished = "parse"
  /\ outcome.kind = "MemoryLimitExceeded"
  /\ outcome.requested = (file_size * 2) \div 1048576
  /\ outcome.requested = outcome.limit + 1
  /\ outcome.limit = GLOBAL_CONFIG.memory_limit_mb
  /\ reads = <<>>

\* C9: parse_streaming picks its path by size alone: below 100 MB (bytes div 2^20)
\* the file goes through ParallelCsvParser::parse with chunk_size, has_header and
\* delimiter copied from the streaming config; at 100 MB or more it is read in
\* low-memory mode and never through parse.
C9_PathBySize ==
  (op = "parse_streaming" \/ (op = "idle" /\ finished = "parse_streaming")) =>
    IF file_size \div 1048576 < 100
      THEN /\ ipc \in {"read", "none"}
           /\ \A i \in 1 .. Len(reads) :
                /\ ~reads[i].low_memory
                /\ reads[i].chunk_size = streaming.config.chunk_size
                /\ reads[i].has_header = streaming.config.has_header
                /\ reads[i].delimiter = streaming.config.delimiter
           /\ (op = "idle" /\ outcome.kind \in {"Ok", "PolarsError"}) => Len(reads) = 1
           /\ (op = "idle" /\ outcome.kind = "MemoryLimitExceeded") =>
                /\ reads = <<>>
                /\ outcome.requested = (file_size * 2) \div 1048576
                /\ outcome.requested > outcome.limit
      ELSE /\ ipc \in {"low_memory_read", "report", "none"}
           /\ \A i \in 1 .. Len(reads) : reads[i].low_memory
           /\ op = "idle" => (outcome.kind \in {"Ok", "PolarsError"} /\ Len(reads) = 1)

\* a file of exactly 100 MB was read in low-memory mode
C9_Witness ==
  /\ op = "idle"
  /\ finished = "parse_streaming"
  /\ file_size = 100 * 1048576
  /\ outcome.kind = "Ok"
  /\ Len(reads) = 1
  /\ reads[1].low_memory

\* a file one byte short of 100 MB went through parse with the copied options
C9_WitnessBelow ==
  /\ op = "idle"
  /\ finished = "parse_streaming"
  /\ file_size = 100 * 1048576 - 1
  /\ outcome.kind = "Ok"
  /\ Len(reads) = 1
  /\ ~reads[1].low_memory
  /\ reads[1].delimiter = ";"
  /\ ~reads[1].has_header

\* C10: at or above the threshold, with an observer, the observer gets exactly one
\* event, (file_size, file_size), and only once the read has succeeded; a failed
\* read gives no event.
C10_CompletionEvent ==
  ((op = "parse_streaming" \/ (op = "idle" /\ finished = "parse_streaming"))
     /\ file_size \div 1048576 >= 100
     /\ streaming.progress_callback) =>
    IF op = "idle" /\ outcome.kind = "Ok"
      THEN events = << <<file_size, file_size>> >> /\ Len(reads) = 1
      ELSE events = <<>>

\* the low-memory read succeeded and the observer has its one event
C10_Witness ==
  /\ op = "idle"
  /\ finished = "parse_streaming"
  /\ file_size \div 1048576 >= 100
  /\ streaming.progress_callback
  /\ outcome.kind = "Ok"
  /\ Len(events) = 1

\* the low-memory read failed under an observer
C10_WitnessFailed ==
  /\ op = "idle"
  /\ finished = "parse_streaming"
  /\ file_size \div 1048576 >= 100
  /\ streaming.progress_callback
  /\ outcome.kind = "PolarsError"
  /\ Len(reads) = 1

----------------------------------------------------------------------------
(* Claims about the values and the readers of the config, checked under Spec *)

\* C14: in every reachable state of the config, whatever configure() calls succeeded
\* or failed before, chunk_size > 0, memory_limit_mb > 0 and thread_count > 0 (a
\* thread_count argument of 0 having been stored as the core count).
C14_FieldsPositive ==
  /\ GLOBAL_CONFIG.chunk_size > 0
  /\ GLOBAL_CONFIG.memory_limit_mb > 0
  /\ GLOBAL_CONFIG.thread_count > 0

\* a call given thread_count = 0 has stored the core count over another value
C14_Witness ==
  \E t \in Threads :
    /\ pc[t] \in {"pool", "build", "chunk_size"}
    /\ call.thread_count = Some(0)
    /\ saved.thread_count # NumCpus
    /\ GLOBAL_CONFIG.thread_count = NumCpus

\* a call was rejected for a zero argument after earlier calls had changed both
\* validated fields
C14_WitnessRejected ==
  /\ lastResult = "ValueError"
  /\ GLOBAL_CONFIG.chunk_size # DefaultChunkSize
  /\ GLOBAL_CONFIG.memory_limit_mb # DefaultMemoryLimitMb

\* C15: get_config() is a pure read: a call changes neither the config nor the pool
\* flag, and a call made while no configure() call has started since the previous
\* get_config() returns the same five fields as that previous call.
C15_PureRead ==
  [][\A t \in Threads :
       GetConfig(t) =>
         /\ GLOBAL_CONFIG' = GLOBAL_CONFIG
         /\ THREAD_POOL_INITIALIZED' = THREAD_POOL_INITIALIZED
         /\ globalPool' = globalPool
         /\ snapshot.fresh => snapshot'.value = snapshot.value]_vars

\* a snapshot of a config that configure() has changed is held, no call having
\* started since: the next get_config() is the second of two calls in a row
C15_Witness ==
  /\ snapshot.fresh
  /\ snapshot.value # RustConfigDefault
  /\ THREAD_POOL_INITIALIZED
  /\ \A t \in Threads : pc[t] = "idle"

\* C18: a configure() call that returns an error leaves the pool flag as it was
\* when the call began: thread_count supplied together with an invalid chunk_size
\* or memory_limit_mb while the pool is uninitialized does not initialize it.
C18_FailedCallLeavesPool ==
  [][\A t \in Threads :
       (Returns(t) /\ lastResult' # "Ok") =>
         THREAD_POOL_INITIALIZED' = savedFlag]_vars

\* C19: a reader's snapshot of the config equals the config as a whole configure()
\* call left it or found it: no snapshot holds the fields of a call that is
\* still running.
C19_AtomicReads == snapshot.fresh => snapshot.value = saved

\* a snapshot taken after a call that changed several fields returned, while another
\* thread has not yet begun its own call
C19_Witness ==
  /\ snapshot.fresh
  /\ snapshot.value.thread_count # RustConfigDefault.thread_count
  /\ snapshot.value.chunk_size # RustConfigDefault.chunk_size
  /\ snapshot.value.memory_limit_mb # RustConfigDefault.memory_limit_mb
  /\ lastResult = "Ok"

----------------------------------------------------------------------------
(* Claims about infer_schema and the host boundary, checked under SpecIngest *)

\* C11: infer_schema makes the pre-flight checks of parse: a missing path fails with
\* NotFound, and an existing file whose estimated memory exceeds the ceiling fails
\* with MemoryLimitExceeded before the collaborator is invoked.
C11_SamePreflight ==
  [][\A f \in Files :
       (InferSchema(f) /\ Preflight(f, GLOBAL_CONFIG).kind \in {"NotFound", "MemoryLimitExceeded"})
         => /\ op' = "idle"
            /\ outcome' = Preflight(f, GLOBAL_CONFIG)
            /\ reads' = <<>>]_vars

\* C12: at the host boundary an error of parse_csv, parse_csv_with_options,
\* parse_csv_streaming or infer_csv_schema reaches the caller in the category of its
\* kind: MemoryLimitExceeded as a memory error, ValidationError as a value error,
\* NotFound, I/O and collaborator failures as a runtime error.
C12_ErrorCategories ==
  (op = "idle" /\ finished \in HostCalls /\ outcome.kind \notin {"none", "Ok"}) =>
    Raised = PyErrOf(outcome.kind)

----------------------------------------------------------------------------
(* Claims about should_use_streaming, checked under SpecQuery *)

\* C13: should_use_streaming(path) is true exactly when floor(size * 2 / 2^20)
\* exceeds the parser's own StreamingCsvConfig.memory_limit_mb; for one file it is
\* monotonic in that limit (recommended at a limit means recommended at every
\* smaller one) and it does not depend on the process-wide memory_limit_mb.
C13_Recommendation ==
  /\ [](answer.ok =>
          answer.recommended = ((answer.len * 2) \div 1048576 > answer.limit))
  /\ [][(answer.ok /\ answer'.ok /\ answer'.len = answer.len) =>
          /\ (answer'.limit <= answer.limit /\ answer.recommended) => answer'.recommended
          /\ (answer.limit <= answer'.limit /\ answer'.recommended) => answer.recommended
          /\ answer'.limit = answer.limit => answer'.recommended = answer.recommended]_vars

\* streaming is not recommended for a file whose estimate is over the process-wide
\* ceiling but within the parser's own limit
C13_Witness ==
  /\ answer.ok
  /\ ~answer.recommended
  /\ EstimateMb(answer.len) > answer.ceiling
  /\ answer.limit # DefaultStreamingLimitMb

\* streaming is recommended for a file whose estimate is within the process-wide
\* ceiling
C13_WitnessRecommended ==
  /\ answer.ok
  /\ answer.recommended
  /\ EstimateMb(answer.len) <= answer.ceiling

----------------------------------------------------------------------------
(* Claims about the frozen options and the streaming pre-flight, checked under *)
(* SpecOptions                                                                  *)

\* C16: a ParallelCsvParser built by new() takes its chunk_size from the process
\* config as it is at construction; a configure(chunk_size) call after that leaves
\* the parser's options as they were, and parse() passes the chunk size of
\* construction time to the collaborator.
C16_FrozenOptions ==
  [][/\ ParserNew => Unwrap(parallel').chunk_size = GLOBAL_CONFIG.chunk_size
     /\ \A cs \in ChunkArgs : ConfigureChunk(cs) => parallel' = parallel
     /\ \A ok \in BOOLEAN :
          (op = "parse" /\ ParseRead(ok)) =>
            /\ Len(reads') = 1
            /\ reads'[1].chunk_size = Unwrap(parallel).chunk_size]_vars

\* a parse() has read with the chunk size its parser was built with, the process
\* config holding another chunk size by then
C16_Witness ==
  /\ op = "idle"
  /\ finished = "parse"
  /\ outcome.kind = "Ok"
  /\ Len(reads) = 1
  /\ parallel # None
  /\ reads[1].chunk_size = Unwrap(parallel).chunk_size
  /\ reads[1].chunk_size # GLOBAL_CONFIG.chunk_size

\* C20: the outcome of parse_streaming never depends on the parser's own
\* StreamingCsvConfig.memory_limit_mb: a file of 100 MB or more is never rejected
\* with MemoryLimitExceeded, and a file below 100 MB is rejected exactly when its
\* 2x estimate exceeds the process-wide ceiling.
C20_StreamingPreflight ==
  /\ []((finished = "parse_streaming" /\ outcome.kind = "MemoryLimitExceeded") =>
          (file_size \div 1048576 < 100 /\ reads = <<>>))
  /\ [][\A f \in Files :
          (ParseStreaming(f) /\ f.exists /\ f.metadata_ok) =>
            ((outcome'.kind = "MemoryLimitExceeded") <=>
               (/\ f.len \div 1048576 < 100
                /\ (f.len * 2) \div 1048576 > GLOBAL_CONFIG.memory_limit_mb))]_vars

\* a file of 100 MB was read by a parser whose own limit, like the process-wide
\* ceiling, is below the file's estimate
C20_Witness ==
  /\ op = "idle"
  /\ finished = "parse_streaming"
  /\ outcome.kind = "Ok"
  /\ file_size \div 1048576 >= 100
  /\ streaming.config.memory_limit_mb < EstimateMb(file_size)
  /\ GLOBAL_CONFIG.memory_limit_mb < EstimateMb(file_size)

\* a file below 100 MB was read by a parser whose own limit is below the estimate
C20_WitnessBelow ==
  /\ op = "idle"
  /\ finished = "parse_streaming"
  /\ outcome.kind = "Ok"
  /\ file_size \div 1048576 < 100
  /\ streaming.config.memory_limit_mb < EstimateMb(file_size)

\* a file below 100 MB was rejected though within the parser's own limit
C20_WitnessRejected ==
  /\ op = "idle"
  /\ finished = "parse_streaming"
  /\ outcome.kind = "MemoryLimitExceeded"
  /\ EstimateMb(file_size) <= streaming.config.memory_limit_mb

----------------------------------------------------------------------------
(* Termination of the parse_batches loop, checked under SpecIngest *)

\* C17: parse_batches terminates for every StreamingCsvConfig that can be built and
\* every row count R: each pass of the loop moves start forward, so the consumer is
\* called at most R times before start = R, also with chunk_size = 0 and R > 0.
C17_LoopTerminates ==
  /\ [](InBatches => Len(batches) <= total_rows)
  /\ [][BatchProgress => start' > start]_vars

====
